---- MODULE Spec2Model ----
(***************************************************************************)
(* codecs2.py: the chunk-at-a-time transform driver `transform`, and the   *)
(* two sample providers `xor` (bytes to bytes) and `sjis` (bytes to text). *)
(*                                                                         *)
(* Bytes and code points are natural numbers; a bytes object and a str are *)
(* sequences of them.  One pass of `transform` is the loop of lines 68-76  *)
(* (one action per iteration) followed by the join and the post-check of   *)
(* lines 77-80.  A caller may run further passes over buffers derived from *)
(* the one before; finished passes are kept in `log`.                      *)
(***************************************************************************)
EXTENDS Integers, Sequences, FiniteSets, TLC

(* ------------------------------ bounds -------------------------------- *)
\* longest buffer a caller hands to the first pass
MaxLen == 3
\* longest xor pattern
MaxPat == 2

(* ----------------------- bytes used as inputs ------------------------- *)
\* Shift-JIS buffers: an ASCII byte that is also a valid trail byte (0x41),
\* a lead byte that is also a valid trail byte (0x81), a byte that is no
\* character of its own but a valid trail byte (0xA0), a byte inside the
\* range line 52 treats as "first of a pair" that the codec rejects (0xEB),
\* and a byte the codec rejects everywhere (0xFD).
SjisBytes == {65, 129, 160, 235, 253}
\* buffers and patterns of the byte transforms
DataBytes == {1, 2, 3}
PatternBytes == {5, 6}
\* the chunk a footer-emitting transformer returns with consumed = 0
FooterChunks == {<< >>, <<70>>}

SeqsUpTo(S, n) == UNION {[1..k -> S] : k \in 0..n}

(* --------------------------- Python helpers --------------------------- *)
Min(a, b) == IF a < b THEN a ELSE b

\* s[lo:hi] for 0 <= lo, 0 <= hi (hi beyond the end is clamped)
PySlice(s, lo, hi) == SubSeq(s, lo + 1, Min(hi, Len(s)))

\* s[lo:-1]
PySliceDropLast(s, lo) == SubSeq(s, lo + 1, Len(s) - 1)

\* str.startswith
startswith(s, p) == Len(p) <= Len(s) /\ SubSeq(s, 1, Len(p)) = p

\* a ^ b on non-negative integers
RECURSIVE BitXor(_, _)
BitXor(a, b) ==
    IF a = 0 THEN b
    ELSE IF b = 0 THEN a
    ELSE (((a % 2) + (b % 2)) % 2) + (2 * BitXor(a \div 2, b \div 2))

\* joiner.join(chunks)
RECURSIVE join(_, _)
join(joiner, chunks) ==
    IF chunks = << >> THEN << >>
    ELSE IF Len(chunks) = 1 THEN chunks[1]
    ELSE chunks[1] \o joiner \o join(joiner, Tail(chunks))

(* ------------------ codecs.lookup('sjis').decode ---------------------- *)
\* The JIS X 0208 table, restricted to the (row, cell) pairs the pairs of
\* SjisBytes map to: 0x8141 -> U+3001, 0x8181 -> U+FF1D, 0x81A0 -> U+25A1.
\* Every other pair of SjisBytes is unassigned.
jisx0208 == (<<33, 34>> :> 12289) @@ (<<33, 97>> :> 65309) @@ (<<34, 34>> :> 9633)

\* One character at position i (1-based) of b, as the codec's inner loop
\* reads it: [st |-> "ok", cp, width], "toofew" or "illegal".
DecodeUnit(b, i) ==
    LET c == b[i] IN
    IF c < 128 THEN [st |-> "ok", cp |-> c, width |-> 1]
    ELSE IF c >= 161 /\ c <= 223 THEN [st |-> "ok", cp |-> 65216 + c, width |-> 1]
    ELSE IF (c >= 129 /\ c <= 159) \/ (c >= 224 /\ c <= 234) THEN
        IF i + 1 > Len(b) THEN [st |-> "toofew", cp |-> 0, width |-> 0]
        ELSE LET t  == b[i + 1]
                 r1 == IF c < 224 THEN c - 129 ELSE c - 193
                 r2 == IF t < 128 THEN t - 64 ELSE t - 65
                 c1 == 2 * r1 + (IF r2 < 94 THEN 0 ELSE 1) + 33
                 c2 == (IF r2 < 94 THEN r2 ELSE r2 - 94) + 33
             IN  IF t < 64 \/ t = 127 \/ t > 252
                     THEN [st |-> "illegal", cp |-> 0, width |-> 0]
                 ELSE IF c1 = 33 /\ c2 = 64
                     THEN [st |-> "ok", cp |-> 65340, width |-> 2]
                 ELSE IF <<c1, c2>> \in DOMAIN jisx0208
                     THEN [st |-> "ok", cp |-> jisx0208[<<c1, c2>>], width |-> 2]
                 ELSE [st |-> "illegal", cp |-> 0, width |-> 0]
    ELSE [st |-> "illegal", cp |-> 0, width |-> 0]

\* The stateless decode of the whole of b from position i on, with `out`
\* decoded so far.  An incomplete sequence is an error over all the bytes
\* left, an illegal one an error over one byte; 'strict' raises
\* UnicodeDecodeError with (start, end) of the erroneous bytes, 'replace'
\* emits U+FFFD and skips them, 'ignore' skips them.
RECURSIVE DecodeFrom(_, _, _, _)
DecodeFrom(b, i, errors, out) ==
    IF i > Len(b)
        THEN [raised |-> FALSE, text |-> out, size |-> Len(b), start |-> 0, end |-> 0]
    ELSE LET u == DecodeUnit(b, i) IN
        IF u.st = "ok" THEN DecodeFrom(b, i + u.width, errors, Append(out, u.cp))
        ELSE LET esize == IF u.st = "toofew" THEN Len(b) - i + 1 ELSE 1 IN
            IF errors = "strict"
                THEN [raised |-> TRUE, text |-> << >>, size |-> 0,
                      start |-> i - 1, end |-> i - 1 + esize]
            ELSE IF errors = "replace"
                THEN DecodeFrom(b, i + esize, errors, Append(out, 65533))
            ELSE DecodeFrom(b, i + esize, errors, out)

impl(b, errors) == DecodeFrom(b, 1, errors, << >>)

(* ----------------------------- providers ------------------------------ *)
\* What a transformer call does: returns (chunk, consumed), or raises.
Returned(chunk, consumed) == [raised |-> "none", chunk |-> chunk, consumed |-> consumed]
Raised(what) == [raised |-> what, chunk |-> << >>, consumed |-> 0]

\* xor._transform with the guard of line 22 written <= (a last whole block
\* is left unconsumed)
xor_transform_le(pattern, data, offset) ==
    LET count == Len(pattern) IN
    IF Len(data) - offset <= count THEN Returned(<< >>, 0)
    ELSE Returned([i \in 1..count |-> BitXor(pattern[i], data[i + offset])], count)

\* xor._transform combining every byte with pattern[0]
xor_transform_first(pattern, data, offset) ==
    LET count == Len(pattern) IN
    IF Len(data) - offset < count THEN Returned(<< >>, 0)
    ELSE Returned([i \in 1..count |-> BitXor(pattern[1], data[i + offset])], count)

\* xor(pattern)._transform(data, offset)
xor_transform(pattern, data, offset) ==
    LET count == Len(pattern) IN
    IF Len(data) - offset < count THEN Returned(<< >>, 0)
    ELSE Returned([i \in 1..count |-> BitXor(pattern[i], data[i + offset])], count)

\* the value the `assert d == data` of line 44 tests: d is the object the
\* decoder was given, data[offset:]
AssertSameData(d, data) == d = data

\* sjis._transform without the early return of lines 46-48: the look at the
\* last byte is made under 'strict' too, where the decode of line 54 can raise
sjis_transform_always_looks(errors, debug, data, offset) ==
    IF data = << >> THEN Returned(<< >>, 0)
    ELSE LET d == PySlice(data, offset, Len(data))
             r == impl(d, errors)
         IN
         IF r.raised THEN
             IF debug /\ ~AssertSameData(d, data) THEN Raised("AssertionError")
             ELSE LET p == impl(PySlice(data, offset, offset + r.start), errors) IN
                  IF p.raised THEN Raised("UnicodeDecodeError")
                  ELSE Returned(p.text, p.size)
         ELSE LET last == data[Len(data)] IN
              IF last < 129 \/ (160 <= last /\ last <= 223) \/ last >= 253
                  THEN Returned(r.text, r.size)
              ELSE LET w == impl(PySliceDropLast(data, offset), errors) IN
                   IF w.raised THEN Raised("UnicodeDecodeError")
                   ELSE IF startswith(r.text, w.text) THEN Returned(w.text, w.size)
                   ELSE Returned(r.text, r.size)

\* sjis._transform decoding `data` where lines 39 and 54 slice it from
\* `offset` (every call decodes from the start of the buffer again)
sjis_transform_decodes_whole(errors, debug, data, offset) ==
    IF data = << >> THEN Returned(<< >>, 0)
    ELSE LET r == impl(data, errors) IN
         IF r.raised THEN
             LET p == impl(PySlice(data, 0, r.start), errors) IN
             IF p.raised THEN Raised("UnicodeDecodeError")
             ELSE Returned(p.text, p.size)
         ELSE IF errors = "strict" THEN Returned(r.text, r.size)
         ELSE LET last == data[Len(data)] IN
              IF last < 129 \/ (160 <= last /\ last <= 223) \/ last >= 253
                  THEN Returned(r.text, r.size)
              ELSE LET w == impl(PySliceDropLast(data, 0), errors) IN
                   IF startswith(r.text, w.text) THEN Returned(w.text, w.size)
                   ELSE Returned(r.text, r.size)

\* sjis(errors)._transform(data, offset); `debug` is Python's __debug__
\* (assert statements are compiled out when it is false)
sjis_transform(errors, debug, data, offset) ==
    IF data = << >> THEN Returned(<< >>, 0)
    ELSE LET d == PySlice(data, offset, Len(data))
             r == impl(d, errors)
         IN
         IF r.raised THEN
             IF debug /\ ~AssertSameData(d, data) THEN Raised("AssertionError")
             ELSE LET p == impl(PySlice(data, offset, offset + r.start), errors) IN
                  IF p.raised THEN Raised("UnicodeDecodeError")
                  ELSE Returned(p.text, p.size)
         ELSE IF errors = "strict" THEN Returned(r.text, r.size)
         ELSE LET last == data[Len(data)] IN
              IF last < 129 \/ (160 <= last /\ last <= 223) \/ last >= 253
                  THEN Returned(r.text, r.size)
              ELSE LET w == impl(PySliceDropLast(data, offset), errors) IN
                   IF startswith(r.text, w.text) THEN Returned(w.text, w.size)
                   ELSE Returned(r.text, r.size)

\* A transformer of the kind lines 63-64 and 70-72 allow for: it passes
\* `width` bytes through per call while that many remain, and then returns
\* its footer with consumed = 0 (on an empty buffer too).
footer_transform(width, footer, data, offset) ==
    IF width > 0 /\ Len(data) - offset >= width
        THEN Returned(PySlice(data, offset, offset + width), width)
    ELSE Returned(footer, 0)

\* provider(**kwargs): the transformer ...
transformer(cfg, data, offset) ==
    CASE cfg.kind = "xor"    -> xor_transform(cfg.pattern, data, offset)
      [] cfg.kind = "sjis"   -> sjis_transform(cfg.errors, cfg.debug, data, offset)
      [] cfg.kind = "footer" -> footer_transform(cfg.width, cfg.footer, data, offset)

\* ... and the joiner (b'' or '')
joiner(cfg) == << >>

Config(kind, pattern, errors, debug, width, footer) ==
    [kind |-> kind, pattern |-> pattern, errors |-> errors, debug |-> debug,
     width |-> width, footer |-> footer]

\* The calls a caller can make first: a provider, its keyword arguments and
\* a buffer.  __debug__ only matters where an assert can be reached, which
\* is the 'strict' handler.
XorCalls ==
    {[cfg |-> Config("xor", p, "-", TRUE, 0, << >>), data |-> b] :
        p \in SeqsUpTo(PatternBytes, MaxPat), b \in SeqsUpTo(DataBytes, MaxLen)}
SjisCalls ==
    {[cfg |-> Config("sjis", << >>, e[1], e[2], 0, << >>), data |-> b] :
        e \in {<<"strict", TRUE>>, <<"strict", FALSE>>, <<"replace", TRUE>>,
               <<"ignore", TRUE>>},
        b \in SeqsUpTo(SjisBytes, MaxLen)}
FooterCalls ==
    {[cfg |-> Config("footer", << >>, "-", TRUE, w, f), data |-> b] :
        w \in 0..1, f \in FooterChunks, b \in SeqsUpTo(DataBytes, MaxLen)}

(* ------------------------------- state -------------------------------- *)
VARIABLES
    cfg,      \* the provider and its keyword arguments
    full,     \* transform's `full` argument
    data,     \* the buffer of the pass under way
    offset,   \* line 67
    chunks,   \* line 62
    calls,    \* every transformer call of this pass that returned: (offset, chunk, consumed)
    pc,       \* "loop" (line 69 is next), "join" (line 77 is next), "done"
    outcome,  \* how the pass ended: a return, a ValueError, or what the transformer raised
    phase,    \* which call of the caller this pass is
    rest,     \* the second part of a buffer the caller split
    log       \* the passes finished before this one

vars == <<cfg, full, data, offset, chunks, calls, pc, outcome, phase, rest, log>>

NoOutcome == [kind |-> "none", value |-> << >>, trailing |-> 0]

Init ==
    /\ \E c \in XorCalls \cup SjisCalls \cup FooterCalls :
           cfg = c.cfg /\ data = c.data
    /\ full \in BOOLEAN
    /\ offset = 0
    /\ chunks = << >>
    /\ calls = << >>
    /\ pc = "loop"
    /\ outcome = NoOutcome
    /\ phase = "first"
    /\ rest = << >>
    /\ log = << >>

(* -------------------------- transform, 68-80 -------------------------- *)
\* the stop of line 75 written as a test of the chunk, not of consumed
StopsOnEmptyChunk(chunk, consumed) == chunk = << >>

\* line 75: the loop stops after a call that returned (chunk, consumed)
Stops(chunk, consumed) == consumed = 0

\* the test of line 78 without `full`
IncompleteIgnoresFull(f, off, n) == off # n

\* line 78
Incomplete(f, off, n) == f /\ off # n

\* the count of line 79 written as the bytes consumed
TrailingIsOffset(n, off) == off

\* line 79: the count the error carries
Trailing(n, off) == n - off

\* The loop with the stop of lines 75-76 tested before the chunk is kept
\* (what the comment of lines 70-72 warns against).
CallStopsBeforeAppend ==
    /\ pc = "loop"
    /\ LET r == transformer(cfg, data, offset) IN
       IF r.raised # "none" THEN
           /\ pc' = "done"
           /\ outcome' = [kind |-> r.raised, value |-> << >>, trailing |-> 0]
           /\ UNCHANGED <<offset, chunks, calls>>
       ELSE
           /\ chunks' = IF Stops(r.chunk, r.consumed) THEN chunks
                        ELSE Append(chunks, r.chunk)
           /\ offset' = offset + r.consumed
           /\ calls' = Append(calls, [offset |-> offset, chunk |-> r.chunk,
                                      consumed |-> r.consumed])
           /\ pc' = IF Stops(r.chunk, r.consumed) THEN "join" ELSE "loop"
           /\ UNCHANGED outcome
    /\ UNCHANGED <<cfg, full, data, phase, rest, log>>

\* The loop without the `offset += consumed` of line 74.
CallKeepsOffset ==
    /\ pc = "loop"
    /\ LET r == transformer(cfg, data, offset) IN
       IF r.raised # "none" THEN
           /\ pc' = "done"
           /\ outcome' = [kind |-> r.raised, value |-> << >>, trailing |-> 0]
           /\ UNCHANGED <<offset, chunks, calls>>
       ELSE
           /\ chunks' = Append(chunks, r.chunk)
           /\ offset' = offset
           /\ calls' = Append(calls, [offset |-> offset, chunk |-> r.chunk,
                                      consumed |-> r.consumed])
           /\ pc' = IF Stops(r.chunk, r.consumed) THEN "join" ELSE "loop"
           /\ UNCHANGED outcome
    /\ UNCHANGED <<cfg, full, data, phase, rest, log>>

\* One iteration of the loop, lines 69-76.  An exception of the
\* transformer leaves transform at once.
Call ==
    /\ pc = "loop"
    /\ LET r == transformer(cfg, data, offset) IN
       IF r.raised # "none" THEN
           /\ pc' = "done"
           /\ outcome' = [kind |-> r.raised, value |-> << >>, trailing |-> 0]
           /\ UNCHANGED <<offset, chunks, calls>>
       ELSE
           /\ chunks' = Append(chunks, r.chunk)
           /\ offset' = offset + r.consumed
           /\ calls' = Append(calls, [offset |-> offset, chunk |-> r.chunk,
                                      consumed |-> r.consumed])
           /\ pc' = IF Stops(r.chunk, r.consumed) THEN "join" ELSE "loop"
           /\ UNCHANGED outcome
    /\ UNCHANGED <<cfg, full, data, phase, rest, log>>

\* Lines 77-80.
Finish ==
    /\ pc = "join"
    /\ LET result == join(joiner(cfg), chunks) IN
       outcome' = IF Incomplete(full, offset, Len(data))
                      THEN [kind |-> "ValueError", value |-> result,
                            trailing |-> Trailing(Len(data), offset)]
                  ELSE [kind |-> "return", value |-> result, trailing |-> 0]
    /\ pc' = "done"
    /\ UNCHANGED <<cfg, full, data, offset, chunks, calls, phase, rest, log>>

(* ------------------------- the caller's calls ------------------------- *)
Pass == [data |-> data, offset |-> offset, calls |-> calls, outcome |-> outcome,
         phase |-> phase]

\* transform(d, provider, full, **kwargs) once more: lines 62-67
Again(d, ph, r) ==
    /\ pc = "done"
    /\ log' = Append(log, Pass)
    /\ data' = d
    /\ offset' = 0
    /\ chunks' = << >>
    /\ calls' = << >>
    /\ pc' = "loop"
    /\ outcome' = NoOutcome
    /\ phase' = ph
    /\ rest' = r
    /\ UNCHANGED <<cfg, full>>

\* the byte transform over its own output
Reapply ==
    /\ phase = "first" /\ cfg.kind = "xor" /\ outcome.kind = "return"
    /\ Again(outcome.value, "reapply", << >>)

\* the same buffer with one more byte of the stream appended
Extend ==
    /\ phase = "first" /\ cfg.kind = "sjis" /\ outcome.kind \in {"return", "ValueError"}
    /\ \E b \in SjisBytes : Again(Append(data, b), "extend", << >>)

\* the same buffer fed in two parts: the first part ...
DrivePrefix ==
    /\ phase = "first" /\ cfg.kind = "sjis" /\ outcome.kind = "return"
    /\ \E k \in 0..Len(data) :
           Again(SubSeq(data, 1, k), "prefix", SubSeq(data, k + 1, Len(data)))

\* ... and then the second
DriveRest ==
    /\ phase = "prefix" /\ outcome.kind = "return"
    /\ Again(rest, "rest", << >>)

Next == Call \/ Finish \/ Reapply \/ Extend \/ DrivePrefix \/ DriveRest

Spec == Init /\ [][Next]_vars

(* ====================================================================== *)
(* Properties                                                             *)
(* ====================================================================== *)
\* the chunks of a list, one after the other
RECURSIVE Flat(_)
Flat(cs) == IF cs = << >> THEN << >> ELSE Head(cs) \o Flat(Tail(cs))

\* the pass has left the loop through the break of line 76 and ended
Ended == pc = "done" /\ outcome.kind \in {"return", "ValueError"}

\* C1: when every transformer call returned, transform raises ValueError
\* if and only if full is set and the final offset is not len(data); the
\* error then carries the joined chunks and len(data) - offset, and in every
\* other case (full unset with bytes left over too) the joined chunks are
\* returned.  A pass ends otherwise only when the transformer raised.
C1_PostCheck ==
    pc = "done" =>
        IF outcome.kind \in {"return", "ValueError"} THEN
            /\ (outcome.kind = "ValueError") <=> (full /\ offset # Len(data))
            /\ outcome.value = Flat(chunks)
            /\ outcome.kind = "ValueError" => outcome.trailing = Len(data) - offset
            /\ outcome.kind = "return" => outcome.trailing = 0
        ELSE transformer(cfg, data, offset).raised = outcome.kind

C1_Witness ==
    /\ pc = "done" /\ outcome.kind = "ValueError"
    /\ outcome.value # << >> /\ outcome.trailing = 1 /\ Len(chunks) = 2

\* the outcome `transform` must have over a buffer under the strict policy:
\* the decoded text, or with full set and an undecodable tail the
\* ValueError carrying the decoded valid prefix and the bytes left
StrictOutcome(b, f) ==
    LET r == impl(b, "strict") IN
    IF ~r.raised THEN [kind |-> "return", value |-> r.text, trailing |-> 0]
    ELSE LET v == impl(SubSeq(b, 1, r.start), "strict").text IN
         IF f THEN [kind |-> "ValueError", value |-> v, trailing |-> Len(b) - r.start]
         ELSE [kind |-> "return", value |-> v, trailing |-> 0]

\* C2: a pass of the strict sjis transform ends in success or (full set) in
\* the ValueError carrying the decoded valid prefix and the count of bytes
\* left; no other exception reaches the caller.
C2_OnlyIncompleteness ==
    (pc = "done" /\ cfg.kind = "sjis" /\ cfg.errors = "strict")
        => outcome = StrictOutcome(data, full)

Aligned(b, p) == IF Len(p) = 0 THEN Len(b) = 0 ELSE Len(b) % Len(p) = 0

\* byte j of b combined with the pattern byte of its position
XorAt(b, p, j) == BitXor(b[j], p[((j - 1) % Len(p)) + 1])

\* C3: xor with a non-empty pattern over a buffer whose length is no
\* multiple of the pattern's, full set: ValueError whose count is
\* len(buffer) mod len(pattern) and whose partial result is the XOR of the
\* bytes before them.
C3_Truncation ==
    (pc = "done" /\ cfg.kind = "xor" /\ full /\ cfg.pattern # << >>
        /\ Len(data) % Len(cfg.pattern) # 0)
    => LET m == Len(data) % Len(cfg.pattern) IN
       /\ outcome.kind = "ValueError"
       /\ outcome.trailing = m
       /\ outcome.value = [j \in 1..(Len(data) - m) |-> XorAt(data, cfg.pattern, j)]

C3_Witness ==
    /\ pc = "done" /\ cfg.kind = "xor" /\ full
    /\ cfg.pattern = <<5, 6>> /\ data = <<1, 2, 3>>
    /\ outcome = [kind |-> "ValueError", value |-> <<4, 4>>, trailing |-> 1]

\* C4: xor over a buffer whose length is a multiple of the pattern's, full
\* set, succeeds, and xor with the same pattern over that output succeeds
\* and returns the buffer.
C4_SelfInverse ==
    (pc = "done" /\ cfg.kind = "xor" /\ full) =>
        /\ (phase = "first" /\ Aligned(data, cfg.pattern)) => outcome.kind = "return"
        /\ (phase = "reapply" /\ Aligned(log[1].data, cfg.pattern)) =>
               /\ data = log[1].outcome.value
               /\ outcome = [kind |-> "return", value |-> log[1].data, trailing |-> 0]

C4_Witness ==
    /\ pc = "done" /\ cfg.kind = "xor" /\ full /\ phase = "reapply"
    /\ Len(cfg.pattern) = 1 /\ Len(log[1].data) = 3
    /\ data # log[1].data
    /\ outcome.value = log[1].data

\* a buffer made only of complete valid sequences
Valid(b) == ~impl(b, "strict").raised

\* the text of such a buffer
Text(b) == impl(b, "strict").text

\* a byte that begins some two-byte sequence
IsLead(c) == ~Valid(<<c>>) /\ \E t \in SjisBytes : Valid(<<c, t>>)

\* complete sequences followed by exactly one lead byte
EndsInLead(b) ==
    /\ b # << >>
    /\ IsLead(b[Len(b)])
    /\ Valid(SubSeq(b, 1, Len(b) - 1))

\* C5: under a policy other than 'strict', over a buffer of complete
\* sequences followed by one lead byte, the output is the text of the
\* complete sequences alone and the final offset is len(buffer) - 1; over
\* the same buffer with the completing trail byte appended the output is
\* that text followed by the character of the pair, and the whole buffer is
\* consumed.
C5_BoundarySafety ==
    (Ended /\ cfg.kind = "sjis" /\ cfg.errors # "strict") =>
        /\ (phase = "first" /\ EndsInLead(data)) =>
               /\ outcome.value = Text(SubSeq(data, 1, Len(data) - 1))
               /\ offset = Len(data) - 1
        /\ (phase = "extend" /\ EndsInLead(log[1].data) /\ Valid(data)) =>
               /\ outcome.kind = "return"
               /\ outcome.value = log[1].outcome.value
                                      \o Text(SubSeq(data, Len(data) - 1, Len(data)))
               /\ offset = Len(data)

\* C6: under 'strict', for a buffer of complete valid sequences fed whole
\* and then as two parts split at a sequence boundary, all three passes
\* succeed and consume their whole buffer, and the text of the whole is the
\* text of the first part followed by the text of the second.
C6_SplitDeterminism ==
    (pc = "done" /\ cfg.kind = "sjis" /\ cfg.errors = "strict") =>
        /\ (Valid(data) /\ (phase = "prefix" => Valid(rest))) =>
               outcome.kind = "return" /\ offset = Len(data)
        /\ (phase = "rest" /\ Valid(log[2].data) /\ Valid(data)) =>
               /\ log[1].data = log[2].data \o data
               /\ log[1].outcome.kind = "return" /\ log[2].outcome.kind = "return"
               /\ log[1].offset = Len(log[1].data) /\ log[2].offset = Len(log[2].data)
               /\ log[1].outcome.value = log[2].outcome.value \o outcome.value

C6_Witness ==
    /\ pc = "done" /\ cfg.kind = "sjis" /\ cfg.errors = "strict" /\ phase = "rest"
    /\ Len(log[2].data) = 2 /\ Len(log[2].outcome.value) = 1
    /\ data # << >> /\ outcome.kind = "return"
    /\ log[1].outcome.value = log[2].outcome.value \o outcome.value

\* C7: the output (returned, or carried by the ValueError) is the chunks of
\* all the transformer calls of the pass in call order, the chunk of the
\* last, zero-consumption call included; so when the first call returns a
\* non-empty chunk with consumed = 0 (on an empty buffer too) that chunk is
\* the output.
C7_JoinOrdering ==
    Ended =>
        /\ Len(outcome.value) = Len(Flat([i \in 1..Len(calls) |-> calls[i].chunk]))
        /\ \A i \in 1..Len(calls) : \A j \in 1..Len(calls[i].chunk) :
               outcome.value[Len(Flat([k \in 1..(i - 1) |-> calls[k].chunk])) + j]
                   = calls[i].chunk[j]
        /\ (calls[1].consumed = 0) => outcome.value = calls[1].chunk

C7_Witness ==
    /\ Ended /\ cfg.kind = "footer" /\ data = << >>
    /\ Len(calls) = 1 /\ calls[1].consumed = 0
    /\ calls[1].chunk # << >> /\ outcome.value = calls[1].chunk

\* C8: xor with the empty pattern makes exactly one transformer call,
\* consumes nothing and produces empty output; with full set it raises
\* ValueError with count len(buffer) over a non-empty buffer and returns
\* the empty output over the empty buffer (and returns it whenever full is
\* not set).
C8_EmptyPattern ==
    (cfg.kind = "xor" /\ cfg.pattern = << >>) =>
        /\ Len(calls) <= 1 /\ offset = 0
        /\ pc # "loop" => Len(calls) = 1 /\ calls[1].consumed = 0
        /\ pc = "done" =>
               outcome = IF full /\ data # << >>
                            THEN [kind |-> "ValueError", value |-> << >>,
                                  trailing |-> Len(data)]
                         ELSE [kind |-> "return", value |-> << >>, trailing |-> 0]

C8_Witness ==
    /\ cfg.kind = "xor" /\ cfg.pattern = << >> /\ pc = "done" /\ full
    /\ Len(data) = 2 /\ outcome.kind = "ValueError" /\ outcome.trailing = 2

\* C9: whenever the strict decode of data[offset:] fails with the erroneous
\* sequence starting at `start`, the transformer call returns the decode of
\* data[offset:offset+start] with consumed = start, at offset 0 and at
\* every later offset; it never raises.
C9_StrictStep ==
    (pc = "loop" /\ cfg.kind = "sjis" /\ cfg.errors = "strict") =>
        LET r == impl(SubSeq(data, offset + 1, Len(data)), "strict") IN
        r.raised =>
            transformer(cfg, data, offset)
                = Returned(Text(SubSeq(data, offset + 1, offset + r.start)), r.start)

C11_OffsetBound ==
    cfg.kind \in {"xor", "sjis"} =>
        /\ 0 <= offset /\ offset <= Len(data)
        /\ \A i \in 1..Len(calls) :
               /\ 0 <= calls[i].consumed
               /\ calls[i].consumed <= Len(data) - calls[i].offset
        /\ (pc = "done" /\ outcome.kind = "ValueError") => outcome.trailing > 0

C11_Witness ==
    /\ cfg.kind = "sjis" /\ cfg.errors = "replace" /\ pc = "done"
    /\ Len(data) = 3 /\ offset = 2 /\ Len(calls) = 2
    /\ outcome.kind = "ValueError" /\ outcome.trailing = 1

\* the transformer calls made so far in this pass: those that returned, and
\* the one that raised
CallsMade ==
    Len(calls) + (IF pc = "done" /\ outcome.kind \notin {"return", "ValueError"}
                      THEN 1 ELSE 0)

\* C12: for xor with any pattern (the empty one too) and sjis under any
\* policy, over every buffer, the loop stops after at most len(data) + 1
\* transformer calls: the next call always returns or raises, every call
\* that did not stop the loop advanced the offset, which never passes
\* len(data), and no pass makes more than len(data) + 1 calls.
C12_Termination ==
    cfg.kind \in {"xor", "sjis"} =>
        /\ CallsMade <= Len(data) + 1
        /\ pc = "loop" =>
               /\ transformer(cfg, data, offset).raised
                      \in {"none", "AssertionError", "UnicodeDecodeError"}
               /\ Len(calls) <= offset
               /\ offset <= Len(data)

C12_Witness ==
    /\ cfg.kind = "xor" /\ Len(cfg.pattern) = 1 /\ pc = "done"
    /\ Len(data) = 3 /\ Len(calls) = 4

\* C13: for a pattern of length n and any offset with 0 <= offset <=
\* len(data), xor's transformer returns (empty, 0) when fewer than n bytes
\* remain from offset, and otherwise n bytes, the i-th being pattern[i] XOR
\* data[offset+i], with consumed = n; so a whole pass puts data[j] XOR
\* pattern[j mod n] at every position j below n * floor(len(data) / n).
C13_XorStep ==
    cfg.kind = "xor" =>
        LET n == Len(cfg.pattern) IN
        /\ \A off \in 0..Len(data) :
               LET r == transformer(cfg, data, off) IN
               IF Len(data) - off < n THEN r = Returned(<< >>, 0)
               ELSE /\ r.raised = "none" /\ r.consumed = n /\ Len(r.chunk) = n
                    /\ \A i \in 1..n :
                           r.chunk[i] = BitXor(cfg.pattern[i], data[off + i])
        /\ (Ended /\ n > 0) =>
               /\ Len(outcome.value) = n * (Len(data) \div n)
               /\ \A j \in 1..(n * (Len(data) \div n)) :
                      outcome.value[j] = XorAt(data, cfg.pattern, j)

C13_Witness ==
    /\ cfg.kind = "xor" /\ Ended /\ cfg.pattern = <<5, 6>> /\ data = <<1, 2, 3>>
    /\ transformer(cfg, data, 0) = Returned(<<4, 4>>, 2)
    /\ transformer(cfg, data, 2) = Returned(<< >>, 0)
    /\ outcome.value = <<4, 4>>

\* C14: under a policy other than 'strict' ('replace' or 'ignore'), over a
\* buffer made only of complete valid sequences, also one whose last byte
\* is the trail byte of a pair and lies in the lead-byte range, the pass
\* consumes the whole buffer and returns the text 'strict' returns.
C14_LenientKeepsComplete ==
    (Ended /\ cfg.kind = "sjis" /\ cfg.errors # "strict" /\ Valid(data)) =>
        /\ outcome = [kind |-> "return", value |-> Text(data), trailing |-> 0]
        /\ offset = Len(data)

\* C15: for every buffer, empty or not, under every policy, sjis's
\* transformer called at offset = len(data) returns ('', 0) and does not
\* raise, whatever the last byte of the buffer is.
C15_EndOfData ==
    cfg.kind = "sjis" =>
        /\ transformer(cfg, data, Len(data)) = Returned(<< >>, 0)
        /\ \A i \in 1..Len(calls) :
               calls[i].offset = Len(data) =>
                   calls[i].chunk = << >> /\ calls[i].consumed = 0

C15_Witness ==
    /\ cfg.kind = "sjis" /\ cfg.errors = "replace" /\ Ended
    /\ data = <<129, 129>> /\ Len(calls) = 2
    /\ calls[2] = [offset |-> 2, chunk |-> << >>, consumed |-> 0]

====
